---- MODULE Spec2Model ----
(***************************************************************************)
(* Surf.js `Element`: one custom element whose attribute, property and     *)
(* reactive cell are kept in step by input()/output() endpoints, guarded   *)
(* by the _processInput flag and the _ignoredOutputs list.                 *)
(*                                                                         *)
(* Text (attribute values, names) is a sequence of one-character strings.  *)
(* A JS value is a record [t, n, s]: t is the tag, n the number (or the    *)
(* boolean as 0/1), s the text of a string.                                *)
(***************************************************************************)
EXTENDS Integers, Sequences, FiniteSets, TLC

(***************************************************************************)
(* JS values                                                               *)
(***************************************************************************)
Undef == [t |-> "undefined", n |-> 0, s |-> <<>>]
Null == [t |-> "null", n |-> 0, s |-> <<>>]
NaN == [t |-> "nan", n |-> 0, s |-> <<>>]
Obj == [t |-> "object", n |-> 0, s |-> <<>>]
Bool(b) == [t |-> "boolean", n |-> IF b THEN 1 ELSE 0, s |-> <<>>]
Num(k) == [t |-> "number", n |-> k, s |-> <<>>]
Str(txt) == [t |-> "string", n |-> 0, s |-> txt]

\* x === y : NaN differs from itself, two objects are taken to be distinct
StrictEq(x, y) == x = y /\ x.t \notin {"nan", "object"}

DigitChars == <<"0", "1", "2", "3", "4", "5", "6", "7", "8", "9">>

DigitOf(c) == CHOOSE d \in 0..9 : DigitChars[d + 1] = c

IsDigit(c) == \E d \in 0..9 : DigitChars[d + 1] = c

\* decimal text of a number, as '' + n prints it
RECURSIVE NatText(_)
NatText(k) ==
    IF k < 10 THEN <<DigitChars[k + 1]>>
    ELSE NatText(k \div 10) \o <<DigitChars[(k % 10) + 1]>>

IntText(k) == IF k < 0 THEN <<"-">> \o NatText(0 - k) ELSE NatText(k)

\* value of a run of decimal digits
RECURSIVE DigitsValue(_)
DigitsValue(txt) ==
    IF txt = <<>> THEN 0
    ELSE 10 * DigitsValue(SubSeq(txt, 1, Len(txt) - 1)) + DigitOf(txt[Len(txt)])

AllDigits(txt) == txt # <<>> /\ \A i \in 1..Len(txt) : IsDigit(txt[i])

\* '' + x
ToStringText(x) ==
    CASE x.t = "undefined" -> <<"u", "n", "d", "e", "f", "i", "n", "e", "d">>
      [] x.t = "null" -> <<"n", "u", "l", "l">>
      [] x.t = "nan" -> <<"N", "a", "N">>
      [] x.t = "boolean" -> IF x.n = 1 THEN <<"t", "r", "u", "e">>
                            ELSE <<"f", "a", "l", "s", "e">>
      [] x.t = "number" -> IntText(x.n)
      [] x.t = "string" -> x.s
      [] OTHER -> <<"[", "o", "b", "j", "e", "c", "t", "]">>

\* +x : the empty text is 0, a decimal numeral its value, any other text NaN
ToNumber(x) ==
    CASE x.t = "undefined" -> NaN
      [] x.t = "null" -> Num(0)
      [] x.t = "nan" -> NaN
      [] x.t = "boolean" -> Num(x.n)
      [] x.t = "number" -> x
      [] x.t = "string" ->
            IF x.s = <<>> THEN Num(0)
            ELSE IF AllDigits(x.s) THEN Num(DigitsValue(x.s))
            ELSE IF Head(x.s) = "-" /\ AllDigits(Tail(x.s))
                 THEN Num(0 - DigitsValue(Tail(x.s)))
            ELSE NaN
      [] OTHER -> NaN

\* !!x
ToBoolean(x) ==
    CASE x.t \in {"undefined", "null", "nan"} -> FALSE
      [] x.t = "boolean" -> x.n = 1
      [] x.t = "number" -> x.n # 0
      [] x.t = "string" -> x.s # <<>>
      [] OTHER -> TRUE

(***************************************************************************)
(* Type registry (types.ts)                                                *)
(***************************************************************************)
DeclaredTypes == {"string", "number", "boolean", "any"}

\* keys every plain object inherits from Object.prototype; `k in CAST` holds
\* for them although CAST does not declare them
InheritedKeys == {"constructor"}

AttrTypes == {"string", "number", "boolean"}

\* the text taken as the value, whatever the type
DeserializeAsText(type, txt) == Str(txt)

DESERIALIZE(type, txt) ==
    CASE type = "string" -> Str(txt)
      [] type = "number" -> ToNumber(Str(txt))
      [] type = "boolean" -> Bool(TRUE)
      [] OTHER -> Obj

\* Null stands for the absent attribute
SERIALIZE(type, x) ==
    CASE type \in {"string", "number"} ->
            IF x.t \in {"null", "undefined"} THEN Null ELSE Str(ToStringText(x))
      [] type = "boolean" -> IF ToBoolean(x) THEN Str(<<>>) ELSE Null
      [] OTHER -> Obj

DEFAULT(type) ==
    CASE type = "string" -> Str(<<>>)
      [] type = "number" -> Num(0)
      [] type = "boolean" -> Bool(FALSE)
      [] type = "any" -> Undef
      [] OTHER -> Obj

CAST(type, x) ==
    CASE type = "string" -> Str(ToStringText(x))
      [] type = "number" -> ToNumber(x)
      [] type = "boolean" -> Bool(ToBoolean(x))
      [] type = "any" -> x
      [] OTHER -> Obj

\* `type in CAST`
TypeInCAST(type) == type \in DeclaredTypes \cup InheritedKeys

(***************************************************************************)
(* Name mapper (types.ts)                                                  *)
(***************************************************************************)
UpperChars == {"B"}

LowerOf(c) == IF c = "B" THEN "b" ELSE c

UpperOf(c) == IF c = "b" THEN "B" ELSE c

\* \w
IsWord(c) == c \in {"x", "f", "b", "B", "q", "_"} \/ IsDigit(c)

\* str.replace(/\W\w/g, s => s.substr(1).toUpperCase())
RECURSIVE toPropName(_)
toPropName(str) ==
    IF Len(str) < 2 THEN str
    ELSE IF ~IsWord(str[1]) /\ IsWord(str[2])
         THEN <<UpperOf(str[2])>> \o toPropName(SubSeq(str, 3, Len(str)))
         ELSE <<str[1]>> \o toPropName(Tail(str))

\* str.replace(/[A-Z]/, s => '-' + s.toLowerCase()) : the first capital only
RECURSIVE toAttrName(_)
toAttrName(str) ==
    IF str = <<>> THEN str
    ELSE IF Head(str) \in UpperChars THEN <<"-", LowerOf(Head(str))>> \o Tail(str)
    ELSE <<Head(str)>> \o toAttrName(Tail(str))

\* str.replace(/\W/g, '').toLowerCase()
RECURSIVE toEventName(_)
toEventName(str) ==
    IF str = <<>> THEN str
    ELSE IF IsWord(Head(str)) THEN <<LowerOf(Head(str))>> \o toEventName(Tail(str))
    ELSE toEventName(Tail(str))

(***************************************************************************)
(* Inputs of the model                                                     *)
(***************************************************************************)
NameX == <<"x">>

NameFB == <<"f", "B">>

NameFDashB == <<"f", "-", "b">>

\* "=" cannot occur in an attribute name: setAttribute throws on it
NameBad == <<"q", "=">>

\* another name of the property fB, with an attribute-name of its own
NameFDashCapB == <<"f", "-", "B">>

Names == {NameX, NameFB, NameFDashB, NameBad, NameFDashCapB}

AttrNames == {toAttrName(nm) : nm \in Names}

PropNames == {toPropName(nm) : nm \in Names}

EventNames == {toEventName(nm) : nm \in Names}

\* values the host or the element's own code passes in
ExtValues == {Null, Bool(FALSE), Bool(TRUE), Num(5), NaN, Str(<<"5">>)}

\* values a property holds before its endpoint exists
PreValues == {Str(<<"5">>)}

\* attribute texts the host writes
ExtTexts == {<<"5">>, <<"a">>}

\* attribute texts present before the endpoint exists
PreTexts == {<<"a">>}

\* the calls on the names other than x draw from smaller sets
MinorValues == {Null, Num(5)}

MinorTexts == {<<"5">>}

ValuesFor(nm) == IF nm = NameX THEN ExtValues ELSE MinorValues

TextsFor(nm) == IF nm = NameX THEN ExtTexts ELSE MinorTexts

Variants == {"checkThenWrite", "writeThenCheck"}

\* longest chain of pending steps of one synchronous turn the model follows
MaxDepth == 12

(***************************************************************************)
(* Callbacks the embedder wires: subscribers of a cell, listeners of an     *)
(* event.  "next" hands the received value to a sink, "nextConst" pushes a *)
(* value of its own, "setProp"/"setAttr" write the element, "throw" throws *)
(***************************************************************************)
Cb(kind, name, type, value) == [kind |-> kind, name |-> name, type |-> type, value |-> value]

NoCb == Cb("none", <<>>, "any", Undef)

SetupCall(c, name, type, cb) == [call |-> c, name |-> name, type |-> type, cb |-> cb]

In(name, type) == SetupCall("input", name, type, NoCb)

Out(name, type) == SetupCall("output", name, type, NoCb)

Sub(name, cb) == SetupCall("subscribe", name, "any", cb)

Lis(name, cb) == SetupCall("listen", name, "any", cb)

\* the embedder's code returns to the host before it makes the calls that follow
Later == SetupCall("later", <<>>, "any", NoCb)

\* input looped back to the output of the same name
LoopBack(T) ==
    <<Later, Out(NameX, T), Later, In(NameX, T), Later,
      Sub(NameX, Cb("next", NameX, T, Undef))>>

\* a subscriber that throws
ThrowingSubscriber ==
    <<Out(NameX, "number"), In(NameX, "number"), Sub(NameX, Cb("throw", <<>>, "any", Undef)),
      Sub(NameX, Cb("next", NameX, "number", Undef))>>

\* a subscriber that sets the property it listens to, ahead of the loop-back
ReentrantSubscriber ==
    <<Out(NameX, "number"), In(NameX, "number"),
      Sub(NameX, Cb("setProp", NameX, "any", Num(5))),
      Sub(NameX, Cb("next", NameX, "number", Undef))>>

\* listeners of output x's event that throw, write input f-b, push output fB
Listeners ==
    <<Out(NameX, "any"), Out(NameFB, "number"), In(NameFB, "number"),
      Lis(NameX, Cb("throw", <<>>, "any", Undef)),
      Lis(NameX, Cb("setProp", NameFB, "any", Num(5))), Later,
      Lis(NameX, Cb("nextConst", NameFB, "number", Num(5))),
      Lis(NameX, Cb("setAttr", NameFDashB, "any", Str(<<"a">>)))>>

\* the same attribute-name declared again, under both spellings
Redeclare ==
    <<Later, In(NameFB, "number"), Later, In(NameFDashB, "string"), In(NameFB, "boolean")>>

\* types the registry does not declare
UndeclaredTypes ==
    <<Later, In(NameX, "date"), Out(NameX, "date"), In(NameX, "constructor"),
      Out(NameX, "constructor")>>

\* two bindings wired input-to-output across each other
CrossWired ==
    <<Out(NameX, "number"), Out(NameFB, "number"), In(NameX, "number"), In(NameFB, "number"),
      Sub(NameX, Cb("next", NameFB, "number", Undef)),
      Sub(NameFB, Cb("next", NameX, "number", Undef))>>

\* an output whose attribute-name the DOM rejects
BadAttribute == <<Out(NameBad, "string")>>

\* two names of one property, each with its own attribute-name
SharedProperty == <<Later, In(NameFB, "number"), Later, In(NameFDashCapB, "string")>>

Programs ==
    {LoopBack(T) : T \in DeclaredTypes}
        \cup {ThrowingSubscriber, ReentrantSubscriber, Listeners, Redeclare,
              UndeclaredTypes, CrossWired, BadAttribute, SharedProperty}

(***************************************************************************)
(* State                                                                   *)
(***************************************************************************)
VARIABLES
    variant,         \* which version of output()'s next the class has
    ctor,            \* endpoint-creation calls the embedder has still to make
    processInput,    \* _processInput
    ignoredOutputs,  \* _ignoredOutputs
    inputs,          \* _inputs: attribute-name -> [type, value]; value is $.value
    subs,            \* subscribers of each binding's cell, in subscription order
    attrs,           \* the element's attributes (Null: absent)
    props,           \* the element's own properties
    sinks,           \* the sinks output() has returned
    listeners,       \* listeners of the element's events, in registration order
    stack,           \* pending steps of the running synchronous turn, next first
    trace,           \* what the running (or last) top-level call did
    call,            \* the running (or last) top-level call
    pre,             \* the element when that call began
    outcome,         \* "running", "returned" or "threw" (none: before any call)
    timeout,         \* render(): the timer handle the sink closes over (0: undefined)
    timers,          \* the timers setTimeout has pending
    task,            \* the synchronous task of the element's code: running, nodes pushed
    pushes,          \* the nodes pushed into the render sink so far
    rendered,        \* the invocations of the renderer so far
    parentOf,        \* event(): parentElement of each node of the shadow tree (0: null)
    matching,        \* the nodes el.matches(selector) holds for
    ev,              \* the native event the listener is handling
    el,              \* the listener's loop variable (0: null)
    emitted,         \* what the event stream has emitted to its subscriber
    roundTrip        \* a value on its way through SERIALIZE and DESERIALIZE

elementVars ==
    <<variant, ctor, processInput, ignoredOutputs, inputs, subs, attrs, props, sinks,
      listeners, stack, trace, call, pre, outcome>>

renderVars == <<timeout, timers, task, pushes, rendered>>

eventVars == <<parentOf, matching, ev, el, emitted>>

\* what the endpoints do not touch
side == <<renderVars, eventVars, roundTrip>>

vars == <<elementVars, side>>

config == <<variant>>

elem == <<processInput, ignoredOutputs, inputs, subs, attrs, props, sinks, listeners>>

NoProp == [kind |-> "none", v |-> Undef, attr |-> <<>>, configurable |-> TRUE]

\* a property an assignment creates is configurable
DataProp(v) == [kind |-> "data", v |-> v, attr |-> <<>>, configurable |-> TRUE]

\* a property defineProperty creates is not
Accessor(attr) == [kind |-> "accessor", v |-> Undef, attr |-> attr, configurable |-> FALSE]

Snapshot ==
    [processInput |-> processInput, ignoredOutputs |-> ignoredOutputs, inputs |-> inputs,
     subs |-> subs, attrs |-> attrs, props |-> props, sinks |-> sinks,
     listeners |-> listeners]

Call(op, a, ty, v, repeat) == [op |-> op, a |-> a, ty |-> ty, v |-> v, repeat |-> repeat]

Effect(e, a, v, by) == [e |-> e, a |-> a, v |-> v, by |-> by]

Frame(op, a, ty, v, w, by, cb) ==
    [op |-> op, a |-> a, ty |-> ty, v |-> v, w |-> w, by |-> by, cb |-> cb]

\* this.hasOwnProperty(prop)
hasOwnProperty(prop) == props[prop].kind # "none"

\* this[prop]: the accessor's get returns $.value
ReadProp(prop) ==
    IF props[prop].kind = "accessor" THEN inputs[props[prop].attr].value
    ELSE IF props[prop].kind = "data" THEN props[prop].v
    ELSE Undef

hasAttribute(attr) == attrs[attr] # Null

getAttribute(attr) == attrs[attr]

ValidAttrName(attr) == \A i \in 1..Len(attr) : attr[i] # "="

NoEvent == [target |-> 0, prevented |-> 0, running |-> FALSE]

NoRoundTrip == [type |-> "any", value |-> Undef, text |-> Null, back |-> Undef, stage |-> "none"]

\* no render sink has been pushed into
RenderIdle ==
    /\ timeout = 0
    /\ timers = {}
    /\ task = [running |-> FALSE, pushed |-> 0]
    /\ pushes = <<>>
    /\ rendered = <<>>

\* no event stream has been subscribed to
EventIdle ==
    /\ parentOf = <<>>
    /\ matching = {}
    /\ ev = NoEvent
    /\ el = 0
    /\ emitted = <<>>

RoundTripIdle == roundTrip = NoRoundTrip

\* the element as its field initialisers leave it
Constructed ==
    /\ processInput = TRUE
    /\ ignoredOutputs = <<>>
    /\ inputs = <<>>
    /\ subs = [a \in AttrNames |-> <<>>]
    /\ attrs = [a \in AttrNames |-> Null]
    /\ props = [p \in PropNames |-> NoProp]
    /\ sinks = {}
    /\ listeners = [e \in EventNames |-> <<>>]
    /\ stack = <<>>
    /\ trace = <<>>
    /\ call = Call("none", <<>>, "any", Undef, FALSE)
    /\ pre = Snapshot
    /\ outcome = "none"

Init ==
    /\ variant \in Variants
    /\ ctor \in Programs
    /\ Constructed
    /\ RenderIdle
    /\ EventIdle
    /\ RoundTripIdle

(***************************************************************************)
(* Loop guard                                                              *)
(***************************************************************************)
\* the flag left as it was on entry
IgnoreInputsEntryMissing == TRUE

\* _ignoreInputs: this._processInput = false
IgnoreInputsEntry == FALSE

\* _ignoreInputs: finally { this._processInput = true }
IgnoreInputsExit == TRUE

\* _ignoreOutput: this._ignoredOutputs.push(output)
IgnoreOutputEntry(list, output) == Append(list, output)

\* _ignoreOutput: finally { this._ignoredOutputs.filter(o => o != output) }
IgnoreOutputExit(list, output) == SelectSeq(list, LAMBDA o : o # output)

IsIgnored(attr) == \E i \in 1..Len(ignoredOutputs) : ignoredOutputs[i] = attr

\* try without finally: a thrown exception skips the cleanup
RECURSIVE UnwindNoFinally(_, _, _)
UnwindNoFinally(stk, flag, ignored) ==
    IF stk = <<>>
    THEN [stack |-> <<>>, flag |-> flag, ignored |-> ignored, escaped |-> TRUE]
    ELSE IF Head(stk).op = "barrier"
    THEN [stack |-> Tail(stk), flag |-> flag, ignored |-> ignored, escaped |-> FALSE]
    ELSE UnwindNoFinally(Tail(stk), flag, ignored)

\* A thrown exception leaves the pending steps of the frames it passes, runs
\* their finally blocks, and stops at the caller that absorbs it: dispatchEvent
\* and the custom-element reaction report a callback's exception, they do not
\* rethrow it.  With no such caller left, the top-level call throws.
RECURSIVE Unwind(_, _, _)
Unwind(stk, flag, ignored) ==
    IF stk = <<>>
    THEN [stack |-> <<>>, flag |-> flag, ignored |-> ignored, escaped |-> TRUE]
    ELSE IF Head(stk).op = "barrier"
    THEN [stack |-> Tail(stk), flag |-> flag, ignored |-> ignored, escaped |-> FALSE]
    ELSE IF Head(stk).op = "restore"
    THEN Unwind(Tail(stk), IgnoreInputsExit, ignored)
    ELSE IF Head(stk).op = "unignore"
    THEN Unwind(Tail(stk), flag, IgnoreOutputExit(ignored, Head(stk).a))
    ELSE Unwind(Tail(stk), flag, ignored)

\* the running step throws
Throw ==
    LET u == Unwind(Tail(stack), processInput, ignoredOutputs)
    IN  /\ stack' = u.stack
        /\ processInput' = u.flag
        /\ ignoredOutputs' = u.ignored
        /\ outcome' = IF u.escaped THEN "threw" ELSE outcome

(***************************************************************************)
(* Endpoint creation                                                       *)
(***************************************************************************)
\* the lookup of the existing binding left out
InputExistingIgnored(attr) == FALSE

\* if (this._inputs[attr]) return ...
InputExisting(attr) == attr \in DOMAIN inputs

\* the initial value of a new binding's cell
InputInit(type, prop, attr) ==
    LET fromAttr ==
            IF type # "any"
            THEN IF hasAttribute(attr) THEN DESERIALIZE(type, getAttribute(attr).s)
                 ELSE DEFAULT(type)
            ELSE Undef
    IN  IF hasOwnProperty(prop) THEN CAST(type, ReadProp(prop)) ELSE fromAttr

\* Object.defineProperty throws on an own property that is not configurable
CanDefineProperty(prop) == props[prop].kind = "none" \/ props[prop].configurable

\* Object.defineProperty(this, prop, {get, set}): an existing property keeps
\* its configurable attribute, a new one gets false
DefineProperty(prop, attr) == [Accessor(attr) EXCEPT !.configurable = hasOwnProperty(prop)]

\* input(name, type)
input(name, type) ==
    LET prop == toPropName(name)
        attr == toAttrName(name)
    IN  IF ~TypeInCAST(type)
        THEN /\ outcome' = "threw"
             /\ UNCHANGED <<inputs, props>>
        ELSE IF InputExisting(attr)
        THEN /\ outcome' = "returned"
             /\ UNCHANGED <<inputs, props>>
        ELSE IF ~CanDefineProperty(prop)
        THEN /\ outcome' = "threw"
             /\ UNCHANGED <<inputs, props>>
        ELSE /\ outcome' = "returned"
             /\ inputs' = [a \in DOMAIN inputs \cup {attr} |->
                              IF a = attr
                              THEN [type |-> type, value |-> InputInit(type, prop, attr)]
                              ELSE inputs[a]]
             /\ props' = [props EXCEPT ![prop] = DefineProperty(prop, attr)]

\* output(name, type): the sink is the pair it closes over
output(name, type) ==
    IF ~TypeInCAST(type)
    THEN /\ outcome' = "threw"
         /\ UNCHANGED sinks
    ELSE /\ outcome' = "returned"
         /\ sinks' = sinks \cup {[name |-> name, type |-> type]}

BeginCall(c) ==
    /\ stack = <<>>
    /\ call' = c
    /\ trace' = <<>>
    /\ pre' = Snapshot

CallInput ==
    /\ ctor # <<>>
    /\ Head(ctor).call = "input"
    /\ BeginCall(Call("input", Head(ctor).name, Head(ctor).type, Undef, FALSE))
    /\ input(Head(ctor).name, Head(ctor).type)
    /\ ctor' = Tail(ctor)
    /\ UNCHANGED <<variant, processInput, ignoredOutputs, subs, attrs, sinks, listeners, stack>>
    /\ UNCHANGED side

CallOutput ==
    /\ ctor # <<>>
    /\ Head(ctor).call = "output"
    /\ BeginCall(Call("output", Head(ctor).name, Head(ctor).type, Undef, FALSE))
    /\ output(Head(ctor).name, Head(ctor).type)
    /\ ctor' = Tail(ctor)
    /\ UNCHANGED <<variant, processInput, ignoredOutputs, inputs, subs, attrs, props,
                   listeners, stack>>
    /\ UNCHANGED side

\* input(name).subscribe(cb): the cell notifies its subscribers in this order
Subscribe ==
    /\ ctor # <<>>
    /\ Head(ctor).call = "subscribe"
    /\ toAttrName(Head(ctor).name) \in DOMAIN inputs
    /\ BeginCall(Call("subscribe", Head(ctor).name, "any", Undef, FALSE))
    /\ subs' = [subs EXCEPT ![toAttrName(Head(ctor).name)] = Append(@, Head(ctor).cb)]
    /\ outcome' = "returned"
    /\ ctor' = Tail(ctor)
    /\ UNCHANGED <<variant, processInput, ignoredOutputs, inputs, attrs, props, sinks,
                   listeners, stack>>
    /\ UNCHANGED side

\* addEventListener(toEventName(name), cb) on the element or an ancestor
Listen ==
    /\ ctor # <<>>
    /\ Head(ctor).call = "listen"
    /\ BeginCall(Call("listen", Head(ctor).name, "any", Undef, FALSE))
    /\ listeners' = [listeners EXCEPT ![toEventName(Head(ctor).name)] = Append(@, Head(ctor).cb)]
    /\ outcome' = "returned"
    /\ ctor' = Tail(ctor)
    /\ UNCHANGED <<variant, processInput, ignoredOutputs, inputs, subs, attrs, props, sinks,
                   stack>>
    /\ UNCHANGED side

(***************************************************************************)
(* Top-level calls of the host and of the element's own code               *)
(***************************************************************************)
NoFrameCb(op, a, ty, v, w, by) == Frame(op, a, ty, v, w, by, NoCb)

\* the endpoint-creation calls still to come mention the name
Mentioned(nm) == \E i \in 1..Len(ctor) : ctor[i].call \in {"input", "output"} /\ ctor[i].name = nm

Bound(attr) == attr \in DOMAIN inputs /\ inputs[attr].type \in DeclaredTypes

\* the embedder's code is not in the middle of creating endpoints
HostTurn == IF ctor = <<>> THEN TRUE ELSE Head(ctor).call = "later"

\* the embedder's later code starts
Resume ==
    /\ stack = <<>>
    /\ ctor # <<>>
    /\ Head(ctor).call = "later"
    /\ ctor' = Tail(ctor)
    /\ UNCHANGED <<variant, processInput, ignoredOutputs, inputs, subs, attrs, props, sinks,
                   listeners, stack, trace, call, pre, outcome>>
    /\ UNCHANGED side

\* the host calls setAttribute(attr, text) or removeAttribute(attr)
ExtSetAttribute ==
    \E attr \in AttrNames, w \in {Null} \cup {Str(t) : t \in ExtTexts} :
        /\ HostTurn
        /\ \/ Bound(attr) /\ w \in {Null} \cup {Str(t) : t \in TextsFor(attr)}
           \/ /\ attr \notin DOMAIN inputs
              /\ w \in {Str(t) : t \in PreTexts}
              /\ \E nm \in Names : toAttrName(nm) = attr /\ Mentioned(nm)
        /\ BeginCall(Call(IF w = Null THEN "removeAttribute" ELSE "setAttribute",
                          attr, "any", w, FALSE))
        /\ stack' = <<NoFrameCb("attrWrite", attr, "any", Undef, w, "external")>>
        /\ outcome' = "running"
        /\ UNCHANGED <<variant, ctor, processInput, ignoredOutputs, inputs, subs, attrs,
                       props, sinks, listeners>>
        /\ UNCHANGED side

\* the host assigns element[prop] = v
ExtSetProperty ==
    \E prop \in PropNames, v \in ExtValues \cup PreValues :
        /\ HostTurn
        /\ \/ /\ props[prop].kind = "accessor"
              /\ Bound(props[prop].attr)
              /\ v \in ValuesFor(prop)
           \/ /\ props[prop].kind # "accessor"
              /\ v \in PreValues
              /\ \E nm \in Names : toPropName(nm) = prop /\ Mentioned(nm)
        /\ BeginCall(Call("setProperty", prop, "any", v, FALSE))
        /\ stack' = <<NoFrameCb("propAssign", prop, "any", v, Undef, "external")>>
        /\ outcome' = "running"
        /\ UNCHANGED <<variant, ctor, processInput, ignoredOutputs, inputs, subs, attrs,
                       props, sinks, listeners>>
        /\ UNCHANGED side

\* the element's own code pushes v into a sink output() returned; repeat says
\* the call before it was the same push
ExtNext ==
    \E sink \in sinks, v \in ExtValues :
        /\ HostTurn
        /\ sink.type \in DeclaredTypes
        /\ v \in ValuesFor(sink.name)
        /\ BeginCall(Call("next", sink.name, sink.type, v,
                          call.op = "next" /\ call.a = sink.name /\ call.ty = sink.type
                              /\ call.v = v))
        /\ stack' = <<NoFrameCb("next", sink.name, sink.type, v, Undef, "external")>>
        /\ outcome' = "running"
        /\ UNCHANGED <<variant, ctor, processInput, ignoredOutputs, inputs, subs, attrs,
                       props, sinks, listeners>>
        /\ UNCHANGED side

(***************************************************************************)
(* Steps of the running turn                                               *)
(***************************************************************************)
Top == Head(stack)

Rest == Tail(stack)

Running(op) == stack # <<>> /\ Top.op = op

\* replace the running step by the steps it calls
Continue(frames) ==
    /\ Len(frames) + Len(Rest) <= MaxDepth
    /\ stack' = frames \o Rest

Returned == IF Rest = <<>> /\ outcome = "running" THEN "returned" ELSE outcome

Done ==
    /\ stack' = Rest
    /\ outcome' = Returned

Record(e) == trace' = Append(trace, e)

\* the type of the binding not looked at
AccProceedsAnyType(attr, prev, next) ==
    /\ processInput
    /\ prev # next
    /\ attr \in DOMAIN inputs

\* attributeChangedCallback gets past its early returns
AccProceeds(attr, prev, next) ==
    /\ processInput
    /\ prev # next
    /\ attr \in DOMAIN inputs
    /\ inputs[attr].type # "any"

\* next === null ? DEFAULT[type] : DESERIALIZE[type](next)
AccValue(type, next) == IF next = Null THEN DEFAULT(type) ELSE DESERIALIZE(type, next.s)

\* attributeChangedCallback(attr, prev, next)
attributeChangedCallback ==
    /\ Running("acc")
    /\ IF AccProceeds(Top.a, Top.v, Top.w)
       THEN /\ ignoredOutputs' = IgnoreOutputEntry(ignoredOutputs, Top.a)
            /\ Continue(<<NoFrameCb("cellNext", Top.a, "any",
                                    AccValue(inputs[Top.a].type, Top.w), Undef, "attribute"),
                          NoFrameCb("unignore", Top.a, "any", Undef, Undef, Top.by)>>)
            /\ UNCHANGED outcome
       ELSE /\ Done
            /\ UNCHANGED ignoredOutputs
    /\ UNCHANGED <<variant, ctor, processInput, inputs, subs, attrs, props, sinks, listeners,
                   trace, call, pre>>
    /\ UNCHANGED side

\* the set that pushes whatever the flag and the value are
SetterProceedsAlways(attr, value) == TRUE

\* the accessor's set gets past its condition
SetterProceeds(attr, value) == processInput /\ ~StrictEq(value, inputs[attr].value)

\* this[prop] = value: the accessor's set where input() installed one, an
\* ordinary own property otherwise
PropAssign ==
    /\ Running("propAssign")
    /\ Record(Effect("propWrite", Top.a, Top.v, Top.by))
    /\ IF props[Top.a].kind = "accessor"
       THEN LET attr == props[Top.a].attr
            IN  IF SetterProceeds(attr, Top.v)
                THEN /\ ignoredOutputs' = IgnoreOutputEntry(ignoredOutputs, attr)
                     /\ Continue(<<NoFrameCb("cellNext", attr, "any",
                                             CAST(inputs[attr].type, Top.v), Undef, "property"),
                                   NoFrameCb("unignore", attr, "any", Undef, Undef, Top.by)>>)
                     /\ UNCHANGED <<props, outcome>>
                ELSE /\ Done
                     /\ UNCHANGED <<props, ignoredOutputs>>
       ELSE /\ props' = [props EXCEPT ![Top.a] = DataProp(Top.v)]
            /\ Done
            /\ UNCHANGED ignoredOutputs
    /\ UNCHANGED <<variant, ctor, processInput, inputs, subs, attrs, sinks, listeners,
                   call, pre>>
    /\ UNCHANGED side

\* $.next(value): the cell takes the value and notifies its subscribers in order
CellNext ==
    /\ Running("cellNext")
    /\ inputs' = [inputs EXCEPT ![Top.a].value = Top.v]
    /\ Record(Effect("emit", Top.a, Top.v, Top.by))
    /\ Continue([i \in 1..Len(subs[Top.a]) |->
                    Frame("invoke", Top.a, "any", Top.v, Undef, "callback", subs[Top.a][i])])
    /\ outcome' = IF subs[Top.a] = <<>> THEN Returned ELSE outcome
    /\ UNCHANGED <<variant, ctor, processInput, ignoredOutputs, subs, attrs, props, sinks,
                   listeners, call, pre>>
    /\ UNCHANGED side

\* _ignoreOutput's finally
Unignore ==
    /\ Running("unignore")
    /\ ignoredOutputs' = IgnoreOutputExit(ignoredOutputs, Top.a)
    /\ Done
    /\ UNCHANGED <<variant, ctor, processInput, inputs, subs, attrs, props, sinks, listeners,
                   trace, call, pre>>
    /\ UNCHANGED side

\* _ignoreInputs' finally
Restore ==
    /\ Running("restore")
    /\ processInput' = IgnoreInputsExit
    /\ Done
    /\ UNCHANGED <<variant, ctor, ignoredOutputs, inputs, subs, attrs, props, sinks, listeners,
                   trace, call, pre>>
    /\ UNCHANGED side

\* a callback invoked by dispatchEvent or by the custom-element reaction returned
Barrier ==
    /\ Running("barrier")
    /\ Done
    /\ UNCHANGED <<variant, ctor, processInput, ignoredOutputs, inputs, subs, attrs, props,
                   sinks, listeners, trace, call, pre>>
    /\ UNCHANGED side

\* the early returns of next: before anything is written in the
\* check-then-write version, none before the writes in the other
OutputSkips(name, type, value) ==
    /\ variant = "checkThenWrite"
    /\ \/ StrictEq(ReadProp(toPropName(name)), CAST(type, value))
       \/ /\ type # "any"
          /\ getAttribute(toAttrName(name)) = SERIALIZE(type, value)

\* what stands between the writes and dispatchEvent
EventSuppressed(name, type, propValue, attrValue) ==
    IF variant = "checkThenWrite"
    THEN IsIgnored(toAttrName(name))
    ELSE \/ type # "any" /\ StrictEq(ReadProp(toPropName(name)), propValue)
         \/ type # "any" /\ getAttribute(toAttrName(name)) = attrValue
         \/ IsIgnored(toAttrName(name))

\* the sink's next(value), up to its first write
OutputNext ==
    /\ Running("next")
    /\ processInput' = IgnoreInputsEntry
    /\ LET name == Top.a
           type == Top.ty
           propValue == CAST(type, Top.v)
           attrValue == IF type = "any" THEN Null ELSE SERIALIZE(type, Top.v)
           restore == NoFrameCb("restore", name, type, Undef, Undef, "output")
       IN  IF OutputSkips(name, type, Top.v)
           THEN Continue(<<restore>>)
           ELSE Continue(
                    <<NoFrameCb("propAssign", toPropName(name), type, Top.v, Undef, "output")>>
                    \o (IF type # "any"
                        THEN <<NoFrameCb("attrWrite", toAttrName(name), type, Undef,
                                         attrValue, "output")>>
                        ELSE <<>>)
                    \o <<NoFrameCb("dispatch", name, type, propValue, attrValue, "output"),
                         restore>>)
    /\ UNCHANGED <<variant, ctor, ignoredOutputs, inputs, subs, attrs, props, sinks, listeners,
                   trace, call, pre, outcome>>
    /\ UNCHANGED side

\* setAttribute(attr, text) / removeAttribute(attr) in the DOM: the attribute
\* changes and the custom-element reaction calls attributeChangedCallback
AttrWrite ==
    /\ Running("attrWrite")
    /\ IF Top.w # Null /\ ~ValidAttrName(Top.a)
       THEN /\ Throw
            /\ UNCHANGED <<attrs, trace>>
       ELSE /\ Record(Effect(IF Top.w = Null THEN "removeAttribute" ELSE "setAttribute",
                             Top.a, Top.w, Top.by))
            /\ attrs' = [attrs EXCEPT ![Top.a] = Top.w]
            /\ IF Top.w = Null /\ attrs[Top.a] = Null
               THEN Done
               ELSE /\ Continue(<<NoFrameCb("acc", Top.a, "any", attrs[Top.a], Top.w, Top.by),
                                  NoFrameCb("barrier", Top.a, "any", Undef, Undef, Top.by)>>)
                    /\ UNCHANGED outcome
            /\ UNCHANGED <<processInput, ignoredOutputs>>
    /\ UNCHANGED <<variant, ctor, inputs, subs, props, sinks, listeners, call, pre>>
    /\ UNCHANGED side

\* dispatchEvent(new CustomEvent(event, {detail: propValue, bubbles: true}))
\* and the checks in front of it
Dispatch ==
    /\ Running("dispatch")
    /\ IF EventSuppressed(Top.a, Top.ty, Top.v, Top.w)
       THEN /\ Done
            /\ UNCHANGED trace
       ELSE LET ls == listeners[toEventName(Top.a)]
            IN  /\ Record(Effect("event", toEventName(Top.a), Top.v, Top.by))
                /\ Continue([j \in 1..(2 * Len(ls)) |->
                                IF j % 2 = 1
                                THEN Frame("invoke", Top.a, "any", Top.v, Undef, "callback",
                                           ls[(j + 1) \div 2])
                                ELSE NoFrameCb("barrier", Top.a, "any", Undef, Undef, "callback")])
                /\ UNCHANGED outcome
    /\ UNCHANGED <<variant, ctor, processInput, ignoredOutputs, inputs, subs, attrs, props,
                   sinks, listeners, call, pre>>
    /\ UNCHANGED side

\* a subscriber or a listener runs
Invoke ==
    /\ Running("invoke")
    /\ LET cb == Top.cb
       IN  IF cb.kind = "throw"
           THEN Throw
           ELSE /\ Continue(
                       <<CASE cb.kind = "next" ->
                                NoFrameCb("next", cb.name, cb.type, Top.v, Undef, "callback")
                           [] cb.kind = "nextConst" ->
                                NoFrameCb("next", cb.name, cb.type, cb.value, Undef, "callback")
                           [] cb.kind = "setProp" ->
                                NoFrameCb("propAssign", toPropName(cb.name), "any", cb.value,
                                          Undef, "callback")
                           [] OTHER ->
                                NoFrameCb("attrWrite", toAttrName(cb.name), "any", Undef,
                                          cb.value, "callback")>>)
                /\ UNCHANGED <<processInput, ignoredOutputs, outcome>>
    /\ UNCHANGED <<variant, ctor, inputs, subs, attrs, props, sinks, listeners, trace, call,
                   pre>>
    /\ UNCHANGED side

Next ==
    \/ CallInput
    \/ CallOutput
    \/ Subscribe
    \/ Listen
    \/ Resume
    \/ ExtSetAttribute
    \/ ExtSetProperty
    \/ ExtNext
    \/ attributeChangedCallback
    \/ PropAssign
    \/ CellNext
    \/ OutputNext
    \/ AttrWrite
    \/ Dispatch
    \/ Invoke
    \/ Unignore
    \/ Restore
    \/ Barrier

Spec == Init /\ [][Next]_vars

DepthNotReached == Len(stack) < MaxDepth

(***************************************************************************)
(* Fairness: a synchronous turn runs to its end; the host need not call    *)
(***************************************************************************)
Step ==
    \/ attributeChangedCallback
    \/ PropAssign
    \/ CellNext
    \/ OutputNext
    \/ AttrWrite
    \/ Dispatch
    \/ Invoke
    \/ Unignore
    \/ Restore
    \/ Barrier

FairSpec == Spec /\ WF_vars(Step)

(***************************************************************************)
(* Vocabulary of the properties                                            *)
(***************************************************************************)
\* no element call is on the stack
Quiet == stack = <<>>

\* the entries of the trace with effect e on name a
Hits(e, a) == {i \in 1..Len(trace) : trace[i].e = e /\ trace[i].a = a}

AttrCalls(a) == Hits("setAttribute", a) \cup Hits("removeAttribute", a)

\* the binding of attr has the output sink of the same name, and the same
\* type, as the only subscriber of its cell
LoopedBack(attr) ==
    /\ attr \in DOMAIN inputs
    /\ inputs[attr].type \in DeclaredTypes
    /\ subs[attr] = <<Cb("next", attr, inputs[attr].type, Undef)>>

\* the last top-level call has returned and was the host's element[x] = v
\* for a looped-back x and a v that differs from the cell's value
SetLoopedProperty ==
    /\ Quiet
    /\ call.op = "setProperty"
    /\ call.a = NameX
    /\ outcome = "returned"
    /\ LoopedBack(NameX)
    /\ ~StrictEq(call.v, pre.inputs[NameX].value)

\* C1: setting looped-back property x to a new value v dispatches no event
\* x, and when the setter returns the attribute x is serialize(cast(v)) (absent
\* when that is absent) and the property x reads cast(v)
C1_SetterSyncsAttribute ==
    SetLoopedProperty =>
        LET type == inputs[NameX].type
        IN  /\ Hits("event", NameX) = {}
            /\ ReadProp(NameX) = CAST(type, call.v)
            /\ type # "any" => attrs[NameX] = SERIALIZE(type, CAST(type, call.v))

\* the last top-level call has returned and was the host's change of the
\* attribute x of a looped-back, attribute-backed binding, from prev to a
\* different next
ChangedLoopedAttribute ==
    /\ Quiet
    /\ call.op \in {"setAttribute", "removeAttribute"}
    /\ call.a = NameX
    /\ outcome = "returned"
    /\ LoopedBack(NameX)
    /\ inputs[NameX].type # "any"
    /\ pre.attrs[NameX] # call.v

\* C2: one external change of looped-back attribute x pushes into the cell
\* exactly once, the deserialized text or the default on removal, causes no
\* further setAttribute/removeAttribute on x and dispatches no event x
C2_AttributeChangePushesOnce ==
    ChangedLoopedAttribute =>
        /\ Cardinality(Hits("emit", NameX)) = 1
        /\ \A i \in Hits("emit", NameX) :
               trace[i].v = AccValue(inputs[NameX].type, call.v)
        /\ \A i \in AttrCalls(NameX) : trace[i].by = "external"
        /\ Hits("event", NameX) = {}

\* an input write is pending that an output sink's own write started
PushStartedByOutput == \E i \in 1..Len(stack) : stack[i].op = "unignore" /\ stack[i].by = "output"

\* C3: the attribute change and the property assignment an output sink's
\* next performs never push into an input cell
C3_OutputWritesDoNotReenter == ~PushStartedByOutput

\* the attribute bridge is running for an attribute change an output made,
\* on a bound attribute-backed name whose text did change
C3_Witness ==
    /\ Running("acc")
    /\ Top.by = "output"
    /\ Top.v # Top.w
    /\ Top.a \in DOMAIN inputs
    /\ inputs[Top.a].type # "any"

\* every cell's subscribers are output sinks and no event has a listener
WiredInputToOutput ==
    /\ \A a \in AttrNames : \A i \in 1..Len(subs[a]) : subs[a][i].kind = "next"
    /\ \A e \in EventNames : listeners[e] = <<>>

\* the property as the snapshot of the element has it
ReadPropIn(snap, prop) ==
    IF snap.props[prop].kind = "accessor" THEN snap.inputs[snap.props[prop].attr].value
    ELSE IF snap.props[prop].kind = "data" THEN snap.props[prop].v
    ELSE Undef

\* C4: with inputs wired to outputs only, every external write starts a
\* finite chain of steps, and the chain does not write the surface the write
\* came from again: no attribute call but the host's on the attribute the
\* host changed, no second push into the cell of the property the host set,
\* no second event of the output the element pushed
C4_FiniteChainNoRewrite ==
    /\ Len(stack) < MaxDepth
    /\ (Quiet /\ WiredInputToOutput /\ outcome = "returned") =>
          /\ call.op \in {"setAttribute", "removeAttribute"} =>
                \A i \in AttrCalls(call.a) : trace[i].by = "external"
          /\ (call.op = "setProperty" /\ props[call.a].kind = "accessor") =>
                Cardinality(Hits("emit", props[call.a].attr)) <= 1
          /\ call.op = "next" =>
                Cardinality(Hits("event", toEventName(call.a))) <= 1

\* C4, the part that holds: a turn that has started comes to its end
C4_TurnEnds == (stack # <<>>) ~> (stack = <<>>)

\* the last top-level call has returned and was a push into a sink
Pushed ==
    /\ Quiet
    /\ call.op = "next"
    /\ outcome = "returned"

\* C5: pushing the same value into a sink twice in a row: the second push
\* writes no property, calls no setAttribute/removeAttribute and dispatches no
\* event; the first writes the property, the attribute and the event at most
\* once each
C5_SecondPushSkipped ==
    Pushed =>
        LET propWrites == Cardinality(Hits("propWrite", toPropName(call.a)))
            attrWrites == Cardinality(AttrCalls(toAttrName(call.a)))
            events == Cardinality(Hits("event", toEventName(call.a)))
        IN  IF call.repeat
            THEN propWrites = 0 /\ attrWrites = 0 /\ events = 0
            ELSE propWrites <= 1 /\ attrWrites <= 1 /\ events <= 1

\* the last top-level call has returned and was a push of a value that
\* differs from the property and, for an attribute-backed type, whose text
\* differs from the attribute, as they were when the push began
PushedChange ==
    /\ Pushed
    /\ ~StrictEq(ReadPropIn(pre, toPropName(call.a)), CAST(call.ty, call.v))
    /\ call.ty # "any" => pre.attrs[toAttrName(call.a)] # SERIALIZE(call.ty, call.v)

\* C6: after next(v) for a value that differs from the current one the
\* property reads cast(v) and, for an attribute-backed type, the attribute is
\* serialize(v), absent when that is absent
C6_PushReachesPropertyAndAttribute ==
    PushedChange =>
        /\ ReadProp(toPropName(call.a)) = CAST(call.ty, call.v)
        /\ call.ty # "any" => attrs[toAttrName(call.a)] = SERIALIZE(call.ty, call.v)

\* C7: a push that changes the value, made while the output's attribute-name
\* is not in _ignoredOutputs, dispatches exactly one event toEventName(name)
\* whose detail is cast(v), whatever the declared type
C7_ChangeDispatchesOneEvent ==
    PushedChange =>
        /\ Cardinality(Hits("event", toEventName(call.a))) = 1
        /\ \A i \in Hits("event", toEventName(call.a)) : trace[i].v = CAST(call.ty, call.v)

\* C8: whenever no element call is on the stack, after a return or a thrown
\* exception alike, _processInput is true and _ignoredOutputs is empty
C8_GuardsRestored == Quiet => processInput = TRUE /\ ignoredOutputs = <<>>

\* a push into a sink, and a property set, ended by an exception that passed
\* through _ignoreInputs' or _ignoreOutput's finally
C8_Witness ==
    /\ Quiet
    /\ outcome = "threw"
    /\ call.op \in {"next", "setProperty"}

\* the last call was input() for an attribute-name that had a binding
InputAgain ==
    /\ call.op = "input"
    /\ TypeInCAST(call.ty)
    /\ toAttrName(call.a) \in DOMAIN pre.inputs

\* C9: a second input() for an attribute-name creates no cell, leaves the
\* binding's type and the cell's value as they were and emits nothing; and no
\* call removes a binding or changes its type
C9_OneBindingPerAttribute ==
    /\ \A a \in DOMAIN pre.inputs : a \in DOMAIN inputs /\ inputs[a].type = pre.inputs[a].type
    /\ InputAgain => inputs = pre.inputs /\ props = pre.props /\ trace = <<>>

\* input() was called again under the other spelling, with another type, for
\* a binding whose attribute is present
C9_Witness ==
    /\ InputAgain
    /\ call.ty # pre.inputs[toAttrName(call.a)].type
    /\ call.a # toAttrName(call.a)
    /\ hasAttribute(toAttrName(call.a))

\* C10: input() and output() called with a type the registry does not
\* declare throw, and leave the element as it was
C10_UndeclaredTypeThrows ==
    (call.op \in {"input", "output"} /\ call.ty \notin DeclaredTypes) =>
        /\ outcome = "threw"
        /\ Snapshot = pre

(***************************************************************************)
(* Render sink: render(cb).next(dom)                                       *)
(***************************************************************************)
\* the virtual nodes the element's code pushes
MaxDoms == 2

Doms == 1..MaxDoms

\* pushes into the render sink the model follows
MaxPushes == 4

NoTask == [running |-> FALSE, pushed |-> 0]

\* the version of the class whose output writes before it checks is the one
\* whose render sink schedules the renderer on a timer
Debounced == variant = "writeThenCheck"

\* the pending timer left pending
ClearTimeoutMissing(pending, handle) == pending

\* if (timeout) clearTimeout(timeout): a handle that has fired, or none, clears nothing
ClearTimeout(pending, handle) == {t \in pending : t.id # handle}

\* setTimeout(() => cb(shadowRoot, dom), 1): a handle no earlier call returned
SetTimeout(pending, handle, dom) == pending \cup {[id |-> handle, dom |-> dom]}

\* cb(this.shadowRoot, dom)
Renderer(dom) == Append(rendered, [dom |-> dom, at |-> Len(pushes), inTask |-> task.running])

RenderInit ==
    /\ variant \in Variants
    /\ ctor = <<>>
    /\ Constructed
    /\ timeout = 0
    /\ timers = {}
    /\ task = NoTask
    /\ pushes = <<>>
    /\ rendered = <<>>
    /\ EventIdle
    /\ RoundTripIdle

\* a synchronous task of the element's code begins
TaskBegins ==
    /\ ~task.running
    /\ Len(pushes) < MaxPushes
    /\ task' = [running |-> TRUE, pushed |-> 0]
    /\ UNCHANGED <<elementVars, timeout, timers, pushes, rendered, eventVars, roundTrip>>

\* the sink's next(dom): the renderer at once in the first version, on a timer
\* that replaces the pending one in the documented version
RenderNext ==
    \E dom \in Doms :
        /\ task.running
        /\ Len(pushes) < MaxPushes
        /\ pushes' = Append(pushes, dom)
        /\ task' = [task EXCEPT !.pushed = @ + 1]
        /\ IF Debounced
           THEN /\ timers' = SetTimeout(ClearTimeout(timers, timeout), Len(pushes) + 1, dom)
                /\ timeout' = Len(pushes) + 1
                /\ UNCHANGED rendered
           ELSE /\ rendered' = [Renderer(dom) EXCEPT ![Len(rendered) + 1].at = Len(pushes) + 1]
                /\ UNCHANGED <<timeout, timers>>
        /\ UNCHANGED <<elementVars, eventVars, roundTrip>>

\* the task returns to the event loop
TaskEnds ==
    /\ task.running
    /\ task' = [task EXCEPT !.running = FALSE]
    /\ UNCHANGED <<elementVars, timeout, timers, pushes, rendered, eventVars, roundTrip>>

\* the event loop runs the oldest pending timer; no timer runs inside a task
TimerFires ==
    /\ ~task.running
    /\ timers # {}
    /\ LET t == CHOOSE t \in timers : \A u \in timers : t.id <= u.id
       IN  /\ rendered' = Renderer(t.dom)
           /\ timers' = timers \ {t}
    /\ UNCHANGED <<elementVars, timeout, task, pushes, eventVars, roundTrip>>

RenderStep ==
    \/ TaskBegins
    \/ RenderNext
    \/ TaskEnds
    \/ TimerFires

RenderSpec == RenderInit /\ [][RenderStep]_vars

\* C11: with the debounced sink the renderer runs outside every task, with
\* the node pushed last before it ran and never with a superseded one, at most
\* once for the pushes made since it last ran, and once the timer has fired
\* the last node pushed has been rendered
C11_DebouncedRenderOnce ==
    Debounced =>
        /\ \A i \in 1..Len(rendered) :
               /\ ~rendered[i].inTask
               /\ rendered[i].at \in 1..Len(pushes)
               /\ rendered[i].dom = pushes[rendered[i].at]
        /\ \A i, j \in 1..Len(rendered) : rendered[i].at = rendered[j].at => i = j
        /\ Cardinality(timers) <= 1
        /\ (timers = {} /\ ~task.running /\ pushes # <<>>) =>
               rendered # <<>> /\ rendered[Len(rendered)].at = Len(pushes)

\* three nodes pushed in one task, the last differing from the others, and
\* the renderer has run once since, with the third
C11_Witness ==
    /\ Debounced
    /\ ~task.running
    /\ task.pushed = 3
    /\ Len(pushes) = 3
    /\ pushes[3] # pushes[2]
    /\ Len(rendered) = 1
    /\ rendered[1].dom = pushes[3]

(***************************************************************************)
(* Event stream: one subscription of event(selector, eventName)            *)
(***************************************************************************)
\* elements of the shadow tree
MaxNodes == 3

Nodes == 1..MaxNodes

\* a tree: the parent of an element was created before it; 0 is null, the
\* parentElement of the shadow root's children
Trees == {f \in [Nodes -> 0..(MaxNodes - 1)] : \A n \in Nodes : f[n] < n}

\* every element matches
MatchesAlways(n) == TRUE

\* el.matches(selector)
Matches(n) == n \in matching

\* el.parentElement
parentElement(n) == parentOf[n]

EventInit ==
    /\ variant \in Variants
    /\ ctor = <<>>
    /\ Constructed
    /\ RenderIdle
    /\ parentOf \in Trees
    /\ matching \in SUBSET Nodes
    /\ ev = NoEvent
    /\ el = 0
    /\ emitted = <<>>
    /\ RoundTripIdle

\* the browser fires the event on an element of the shadow tree and calls the
\* listener on the shadow root: for (let el = ev.target; ...
EventFires ==
    \E target \in Nodes :
        /\ ~ev.running
        /\ ev' = [target |-> target, prevented |-> 0, running |-> TRUE]
        /\ el' = target
        /\ emitted' = <<>>
        /\ UNCHANGED <<elementVars, renderVars, parentOf, matching, roundTrip>>

\* one turn of the loop: el is not null
EventWalk ==
    /\ ev.running
    /\ el # 0
    /\ IF Matches(el)
       THEN /\ ev' = [ev EXCEPT !.prevented = @ + 1, !.running = FALSE]
            /\ emitted' = Append(emitted, [ev |-> ev.target, el |-> el])
            /\ UNCHANGED el
       ELSE /\ el' = parentElement(el)
            /\ UNCHANGED <<ev, emitted>>
    /\ UNCHANGED <<elementVars, renderVars, parentOf, matching, roundTrip>>

\* el is null: the loop ends
EventLoopEnds ==
    /\ ev.running
    /\ el = 0
    /\ ev' = [ev EXCEPT !.running = FALSE]
    /\ UNCHANGED <<elementVars, renderVars, parentOf, matching, el, emitted, roundTrip>>

EventStep ==
    \/ EventFires
    \/ EventWalk
    \/ EventLoopEnds

EventSpec == EventInit /\ [][EventStep]_vars

\* the listener, once called, runs on
EventFairSpec == EventSpec /\ WF_vars(EventWalk \/ EventLoopEnds)

\* the element and its parentElement ancestors, the element first
RECURSIVE PathFrom(_)
PathFrom(n) == IF n = 0 THEN <<>> ELSE <<n>> \o PathFrom(parentOf[n])

\* the places of the path whose element matches the selector
MatchesOn(path) == {i \in 1..Len(path) : path[i] \in matching}

\* what one firing must have emitted when the listener has returned
EmissionRight ==
    LET path == PathFrom(ev.target)
        hits == MatchesOn(path)
    IN  IF hits = {}
        THEN emitted = <<>> /\ ev.prevented = 0
        ELSE /\ emitted = <<[ev |-> ev.target,
                            el |-> path[CHOOSE i \in hits : \A j \in hits : i <= j]]>>
             /\ ev.prevented = 1

\* C12: one firing yields at most one emission; when the listener has
\* returned, the target's closest matching self-or-ancestor was emitted once
\* with one preventDefault, or nothing and no preventDefault when none
\* matches; and the listener always returns
C12_ClosestMatchOnce ==
    /\ [](Len(emitted) <= 1 /\ ev.prevented <= 1)
    /\ []((ev.target # 0 /\ ~ev.running) => EmissionRight)
    /\ (ev.running ~> ~ev.running)

\* a firing whose target does not match while two of its ancestors do has
\* emitted the nearer one
C12_Witness ==
    /\ ev.target # 0
    /\ ~ev.running
    /\ ev.target \notin matching
    /\ Cardinality(MatchesOn(PathFrom(ev.target))) = 2
    /\ Len(emitted) = 1
    /\ emitted[1].el = parentOf[ev.target]

(***************************************************************************)
(* Round trip of a value through the attribute: SERIALIZE, then the value  *)
(* attributeChangedCallback reconstructs                                   *)
(***************************************************************************)
\* longest text of a string value
MaxLen == 3

\* largest magnitude of a number value
MaxNum == 12

TextChars == {"5", "a", "-"}

TextsUpTo(n) == UNION {[1..k -> TextChars] : k \in 0..n}

\* the values of each attribute-backed type
DomainOf(type) ==
    CASE type = "string" -> {Str(txt) : txt \in TextsUpTo(MaxLen)}
      [] type = "number" -> {Num(k) : k \in (0 - MaxNum)..MaxNum} \cup {NaN}
      [] type = "boolean" -> {Bool(FALSE), Bool(TRUE)}
      [] OTHER -> {}

RoundTripInit ==
    /\ variant \in Variants
    /\ ctor = <<>>
    /\ Constructed
    /\ RenderIdle
    /\ EventIdle
    /\ \E type \in AttrTypes : \E value \in DomainOf(type) :
           roundTrip = [type |-> type, value |-> value, text |-> Null, back |-> Undef,
                        stage |-> "value"]

\* SERIALIZE[type](value)
ApplySerialize ==
    /\ roundTrip.stage = "value"
    /\ roundTrip' = [roundTrip EXCEPT !.text = SERIALIZE(roundTrip.type, roundTrip.value),
                                      !.stage = "text"]
    /\ UNCHANGED <<elementVars, renderVars, eventVars>>

\* next === null ? DEFAULT[type] : DESERIALIZE[type](next)
ApplyDeserialize ==
    /\ roundTrip.stage = "text"
    /\ roundTrip' = [roundTrip EXCEPT !.back = AccValue(roundTrip.type, roundTrip.text),
                                      !.stage = "back"]
    /\ UNCHANGED <<elementVars, renderVars, eventVars>>

RoundTripStep ==
    \/ ApplySerialize
    \/ ApplyDeserialize

RoundTripSpec == RoundTripInit /\ [][RoundTripStep]_vars

\* C13: for string, number and boolean and every value v of the type, the
\* value reconstructed from SERIALIZE(v) is v: DESERIALIZE of the text, and
\* DEFAULT for the absent attribute, which only boolean false serializes to
C13_RoundTrip ==
    roundTrip.stage = "back" =>
        /\ roundTrip.back = roundTrip.value
        /\ IF roundTrip.text = Null
           THEN roundTrip.value = Bool(FALSE) /\ DEFAULT(roundTrip.type) = roundTrip.value
           ELSE DESERIALIZE(roundTrip.type, roundTrip.text.s) = roundTrip.value

\* a negative number of two digits has made the trip
C13_Witness ==
    /\ roundTrip.stage = "back"
    /\ roundTrip.type = "number"
    /\ roundTrip.value.t = "number"
    /\ roundTrip.value.n < -9
    /\ Len(roundTrip.text.s) = 3

(***************************************************************************)
(* The skip test of the output sink                                        *)
(***************************************************************************)
\* when the push began the property was cast(v) already
PropertyMatched ==
    StrictEq(ReadPropIn(pre, toPropName(call.a)), CAST(call.ty, call.v))

\* when the push began the attribute was serialize(v) already
AttributeMatched == pre.attrs[toAttrName(call.a)] = SERIALIZE(call.ty, call.v)

\* the push wrote no property, called no setAttribute/removeAttribute and
\* dispatched no event
PushSkipped ==
    /\ Hits("propWrite", toPropName(call.a)) = {}
    /\ AttrCalls(toAttrName(call.a)) = {}
    /\ Hits("event", toEventName(call.a)) = {}

\* C14: next(v) skips its writes and its event exactly when the property is
\* cast(v) already and the type is any or the attribute is serialize(v)
\* already; with only one of the two matching, the other one is written
C14_SkipIffBothMatch ==
    Pushed =>
        /\ PushSkipped <=> (PropertyMatched /\ (call.ty = "any" \/ AttributeMatched))
        /\ ~PropertyMatched => Hits("propWrite", toPropName(call.a)) # {}
        /\ (call.ty # "any" /\ ~AttributeMatched) => AttrCalls(toAttrName(call.a)) # {}

(***************************************************************************)
(* Frame of the property setter and of the attribute bridge                *)
(***************************************************************************)
\* the cell pushes pending in a stack
CellPushes(stk) == {i \in 1..Len(stk) : stk[i].op = "cellNext"}

\* the step pushed value into the cell of attr once: the push is the next
\* thing to run and the only one added
PushesOnce(attr, value) ==
    /\ stack' # <<>>
    /\ Head(stack').op = "cellNext"
    /\ Head(stack').a = attr
    /\ Head(stack').v = value
    /\ Cardinality(CellPushes(stack')) = Cardinality(CellPushes(stack)) + 1

\* the step pushed nothing and left the cells, the attributes and the guard alone
PushesNothing ==
    /\ Cardinality(CellPushes(stack')) = Cardinality(CellPushes(stack))
    /\ UNCHANGED <<inputs, subs, attrs, processInput, ignoredOutputs>>
    /\ \A a \in AttrNames : Hits("emit", a)' = Hits("emit", a)

\* a pending cell push, when it runs, gives the cell its value and emits it
CellTakesPush ==
    Running("cellNext") =>
        /\ inputs'[Top.a].value = Top.v
        /\ Hits("emit", Top.a)' = Hits("emit", Top.a) \cup {Len(trace) + 1}
        /\ trace'[Len(trace) + 1].v = Top.v

\* an assignment to an input-bound property is about to run
SetterRuns == Running("propAssign") /\ props[Top.a].kind = "accessor"

\* C15: an assignment to an input-bound property pushes cast(value) into the
\* cell once when _processInput is true and the value is not (===) the
\* cell's value; otherwise nothing is pushed or emitted and the cell, the
\* attributes and the guard state stay as they are
C15_SetterFrame ==
    [][/\ SetterRuns =>
            LET attr == props[Top.a].attr
            IN  IF processInput /\ ~StrictEq(Top.v, inputs[attr].value)
                THEN PushesOnce(attr, CAST(inputs[attr].type, Top.v))
                ELSE PushesNothing
       /\ CellTakesPush]_vars

\* the host assigned a value that its cast changes, and the cast value is
\* about to enter the cell
C15_Witness ==
    /\ Running("cellNext")
    /\ Top.by = "property"
    /\ call.op = "setProperty"
    /\ Top.v # call.v
    /\ Top.v = CAST(inputs[Top.a].type, call.v)

\* C16: attributeChangedCallback(attr, prev, next) pushes into the cell of
\* attr exactly when _processInput is true, prev is not next, attr has a
\* binding and its type is not any; the value is DEFAULT[type] for an absent
\* next and DESERIALIZE[type](next) otherwise; in every other case nothing is
\* pushed or emitted and cells, bindings and guard state stay as they are
C16_BridgeFrame ==
    [][/\ Running("acc") =>
            IF /\ processInput
               /\ Top.v # Top.w
               /\ Top.a \in DOMAIN inputs
               /\ inputs[Top.a].type # "any"
            THEN PushesOnce(Top.a, IF Top.w = Null THEN DEFAULT(inputs[Top.a].type)
                                   ELSE DESERIALIZE(inputs[Top.a].type, Top.w.s))
            ELSE PushesNothing
       /\ CellTakesPush]_vars

\* the host removed a present attribute of a binding, and the type's default
\* is about to enter the cell in place of another value
C16_Witness ==
    /\ Running("cellNext")
    /\ Top.by = "attribute"
    /\ call.op = "removeAttribute"
    /\ Top.v = DEFAULT(inputs[Top.a].type)
    /\ inputs[Top.a].value # Top.v

(***************************************************************************)
(* The initial value of a cell                                             *)
(***************************************************************************)
\* the last call was input(), with a declared type, for an attribute-name
\* that had no binding
FirstInput ==
    /\ call.op = "input"
    /\ call.ty \in DeclaredTypes
    /\ toAttrName(call.a) \notin DOMAIN pre.inputs

\* C17: the first input(name, type) for an attribute-name creates the cell
\* with cast(own property) when the element had an own property of the
\* property-name; otherwise deserialize(attribute) when the attribute was
\* present, the type's default when not, and undefined for type any; and it
\* writes no attribute and dispatches no event
C17_InputInitialValue ==
    FirstInput =>
        LET prop == toPropName(call.a)
            attr == toAttrName(call.a)
        IN  /\ outcome = "returned"
            /\ attr \in DOMAIN inputs
            /\ inputs[attr].type = call.ty
            /\ inputs[attr].value =
                   IF pre.props[prop].kind # "none" THEN CAST(call.ty, ReadPropIn(pre, prop))
                   ELSE IF call.ty = "any" THEN Undef
                   ELSE IF pre.attrs[attr] # Null THEN DESERIALIZE(call.ty, pre.attrs[attr].s)
                   ELSE DEFAULT(call.ty)
            /\ attrs = pre.attrs
            /\ trace = <<>>

(***************************************************************************)
(* The guards during nested pushes                                         *)
(***************************************************************************)
\* a cell push the setter or the attribute bridge started for attr has not returned
PushPending(attr) == \E i \in 1..Len(stack) : stack[i].op = "unignore" /\ stack[i].a = attr

\* the running (or last) top-level call is the host's write of input attr
HostWrote(attr) ==
    \/ /\ call.op = "setProperty"
       /\ pre.props[call.a].kind = "accessor"
       /\ pre.props[call.a].attr = attr
    \/ /\ call.op \in {"setAttribute", "removeAttribute"}
       /\ call.a = attr
       /\ attr \in DOMAIN pre.inputs

\* events the output sinks of attribute-name attr dispatch
EventsOf(attr) == {toEventName(nm) : nm \in {n \in Names : toAttrName(n) = attr}}

\* C18: while a cell push started by the setter or the attribute bridge for
\* attribute-name a has not returned, a is in _ignoredOutputs, also after a
\* nested push for a has returned; and the host's write of input a dispatches
\* no event of a's output
C18_IgnoredWhilePushing ==
    \A a \in AttrNames :
        /\ PushPending(a) => IsIgnored(a)
        /\ HostWrote(a) => \A e \in EventsOf(a) : Hits("event", e) = {}

\* an output sink's next() block has begun and not ended
OutputBlockPending == \E i \in 1..Len(stack) : stack[i].op = "restore"

\* C19: _processInput is false exactly while an output sink's next() block
\* has begun and not ended, also after a nested next() that a listener of the
\* dispatched event made has returned
C19_FlagFalseDuringOutput == (processInput = FALSE) <=> OutputBlockPending

\* places of the trace where a listener wrote v to property prop
ListenerSets(prop, v) ==
    {i \in Hits("propWrite", prop) : trace[i].by = "callback" /\ trace[i].v = v}

\* C20: a push into output x whose event has a listener that sets property
\* fB, an attribute-backed input of another name, to a value that differs
\* from the cell's makes the cell emit the cast of that value: the write is
\* not dropped because an output write is in progress
C20_ListenerWriteNotLost ==
    (/\ Pushed
     /\ call.a = NameX
     /\ toAttrName(NameFB) \in DOMAIN pre.inputs
     /\ pre.inputs[toAttrName(NameFB)].type \in AttrTypes
     /\ pre.props[NameFB].kind = "accessor"
     /\ ListenerSets(NameFB, Num(5)) # {}
     /\ ~StrictEq(Num(5), pre.inputs[toAttrName(NameFB)].value)) =>
        \E i \in Hits("emit", toAttrName(NameFB)) :
            /\ trace[i].v = CAST(pre.inputs[toAttrName(NameFB)].type, Num(5))
            /\ trace[i].by = "property"

(***************************************************************************)
(* The three surfaces at rest                                              *)
(***************************************************************************)
\* no call is in progress, the last one was the host's write of the
\* attribute or the property x, which pushed into the cell, and x is an
\* attribute-backed input looped back to output x
AtRestAfterWrite ==
    /\ Quiet
    /\ outcome = "returned"
    /\ call.op \in {"setAttribute", "removeAttribute", "setProperty"}
    /\ call.a = NameX
    /\ LoopedBack(NameX)
    /\ pre.subs = subs
    /\ inputs[NameX].type \in AttrTypes
    /\ Hits("emit", NameX) # {}

\* C21: for an attribute-backed input x looped back to output x, whenever
\* the host's attribute change, property set or removal has returned, the
\* attribute x is serialize(cell value), absent when that is absent, and
\* the property x reads the cell value
C21_SurfacesAgreeAtRest ==
    AtRestAfterWrite =>
        /\ attrs[NameX] = SERIALIZE(inputs[NameX].type, inputs[NameX].value)
        /\ ReadProp(NameX) = inputs[NameX].value

====
